---- MODULE Spec2Model ----
(***************************************************************************)
(* Model of src/App.tsx: the localization provider (App) and the analysis  *)
(* request lifecycle (AppContent.handleAnalyze / getTextToAnalyze).        *)
(*                                                                         *)
(* Strings that the code inspects character by character (the entered text *)
(* and the extracted text, both passed through String.prototype.trim) are  *)
(* sequences over Alphabet.  Strings that are only stored and compared     *)
(* (messages, translations) are TLA+ strings.  A nullable value is a       *)
(* sequence of length 0 (null) or 1.                                       *)
(***************************************************************************)
EXTENDS Integers, Sequences, FiniteSets, TLC

\* ---- bounds ----
MaxLen == 2
MaxBlank == 1

\* ---- value domains ----
Null == <<>>
Some(x) == <<x>>

Whitespace == {" "}
Alphabet == Whitespace \cup {"a"}
Texts == UNION {[1..n -> Alphabet] : n \in 0..MaxLen}

Files == {"f1", "f2"}
Messages == {"", "quota exceeded"}
Results == {[summary |-> "S1", keywords |-> <<"k1", "k2">>],
            [summary |-> "S2", keywords |-> <<>>]}

Language == {"en", "ar"}
InputMode == {"text", "file"}

\* translations, src/App.tsx:11-64.  The English strings are the literals of
\* the source; an Arabic literal is written "ar:<key>" (the strings are only
\* stored and compared, never inspected).
TranslationTable ==
  [en |-> [appTitle |-> "AI Content Analyzer",
           appDescription |-> "Instantly summarize articles, papers, or any text to grasp key insights.",
           language |-> "ar:language",
           textInputTab |-> "Enter Text",
           fileUploadTab |-> "Upload File",
           textInputPlaceholder |-> "Paste your article, report, or any text here...",
           fileUploadPrompt |-> "Click to browse or drag & drop a file",
           fileUploadSupported |-> "Supports .txt, .md, .pdf, .pptx",
           analyzeButton |-> "Analyze Content",
           analyzingButton |-> "Analyzing...",
           fileSelected |-> "File Selected",
           fileSize |-> "KB",
           changeFile |-> "Choose a different file",
           resultsTitle |-> "Analysis Results",
           initialStateTitle |-> "Awaiting Analysis",
           initialStateDescription |-> "Your summary and keywords will appear here once the analysis is complete.",
           summaryTitle |-> "Summary",
           keywordsTitle |-> "Keywords",
           errorGeneric |-> "An error occurred during analysis. Please try again.",
           errorNoText |-> "Please enter some text to analyze.",
           errorNoFile |-> "Please select a file to analyze.",
           errorFileRead |-> "Failed to read or parse the file. Please ensure it's not corrupted.",
           errorNoTextExtracted |-> "Could not extract any text from the file. It might be empty or image-based.",
           footerText |-> "Powered by Google Gemini. Built with React & Tailwind CSS."],
   ar |-> [appTitle |-> "ar:appTitle",
           appDescription |-> "ar:appDescription",
           language |-> "English",
           textInputTab |-> "ar:textInputTab",
           fileUploadTab |-> "ar:fileUploadTab",
           textInputPlaceholder |-> "ar:textInputPlaceholder",
           fileUploadPrompt |-> "ar:fileUploadPrompt",
           fileUploadSupported |-> "ar:fileUploadSupported",
           analyzeButton |-> "ar:analyzeButton",
           analyzingButton |-> "ar:analyzingButton",
           fileSelected |-> "ar:fileSelected",
           fileSize |-> "ar:fileSize",
           changeFile |-> "ar:changeFile",
           resultsTitle |-> "ar:resultsTitle",
           initialStateTitle |-> "ar:initialStateTitle",
           initialStateDescription |-> "ar:initialStateDescription",
           summaryTitle |-> "ar:summaryTitle",
           keywordsTitle |-> "ar:keywordsTitle",
           errorGeneric |-> "ar:errorGeneric",
           errorNoText |-> "ar:errorNoText",
           errorNoFile |-> "ar:errorNoFile",
           errorFileRead |-> "ar:errorFileRead",
           errorNoTextExtracted |-> "ar:errorNoTextExtracted",
           footerText |-> "ar:footerText"]]

TranslationKey == DOMAIN TranslationTable["en"]

VARIABLES
  translations,   \* the translations table (a constant of the program)
  language,       \* App: useState<Language>('ar')
  docLang,        \* document.documentElement.lang
  docDir,         \* document.documentElement.dir
  lookup,         \* the last call of t observed: Null or <<[key, out]>>
  inputMode,      \* AppContent: useState('text')
  inputText,      \* AppContent: useState('')
  selectedFile,   \* AppContent: useState<File | null>(null)
  analysisResult, \* AppContent: useState<AnalysisResult | null>(null)
  isLoading,      \* AppContent: useState(false)
  error,          \* AppContent: useState<string | null>(null)
  pc,             \* where the one handleAnalyze call stands
  pending,        \* the settled getTextToAnalyze promise awaited by handleAnalyze
  req,            \* what the running (or last) request read when it started
  log             \* what the running (or last) request did

vars == <<translations, language, docLang, docDir, lookup, inputMode, inputText,
          selectedFile, analysisResult, isLoading, error, pc, pending, req, log>>

uiVars == <<inputMode, inputText, selectedFile>>
reqVars == <<analysisResult, isLoading, error, pc, pending, req, log>>
locVars == <<translations, language, docLang, docDir, lookup>>

\* ---- pure functions ----

\* String.prototype.trim (src/App.tsx:95, 103): drops leading and trailing
\* white space.
RECURSIVE TrimStart(_)
TrimStart(s) ==
  IF s = <<>> THEN s
  ELSE IF Head(s) \in Whitespace THEN TrimStart(Tail(s)) ELSE s

RECURSIVE TrimEnd(_)
TrimEnd(s) ==
  IF s = <<>> THEN s
  ELSE IF s[Len(s)] \in Whitespace THEN TrimEnd(SubSeq(s, 1, Len(s) - 1)) ELSE s

Trim(s) == TrimEnd(TrimStart(s))

\* !x.trim(): the empty string is the only falsy string.
IsBlank(s) == Trim(s) = <<>>

\* Faulty variant of T: the whole English table is used as soon as the active table
\* lacks any entry.
T_WholeTable(lang, key) ==
  IF \E k \in TranslationKey : translations[lang][k] = ""
  THEN translations["en"][key]
  ELSE translations[lang][key]

\* t (src/App.tsx:171-173) for the language a render closed over:
\* translations[language][key] || translations['en'][key].
T(lang, key) ==
  IF translations[lang][key] # "" THEN translations[lang][key]
  ELSE translations["en"][key]

\* t as the current render provides it.
t(key) == T(language, key)

\* Faulty variant of LanguageEffect: the direction is not recomputed.
LanguageEffect_AlwaysRtl(lang) == [lang |-> lang, dir |-> "rtl"]

\* The effect of App (src/App.tsx:166-169): the document attributes it sets.
LanguageEffect(lang) ==
  [lang |-> lang, dir |-> IF lang = "ar" THEN "rtl" ELSE "ltr"]

\* ---- thrown values and promise outcomes ----

\* A thrown value: its class and, for an Error, its message.
NewError(msg) == [cls |-> "Error", message |-> msg]
NoError == [cls |-> "none", message |-> ""]

\* What the extractor or the analysis client may reject with.
ExtractorErrors ==
  {[cls |-> c, message |-> m] : c \in {"FileProcessingError", "Error"}, m \in Messages}
    \cup {[cls |-> "NonError", message |-> ""]}
AnalysisErrors ==
  {[cls |-> "Error", message |-> m] : m \in Messages}
    \cup {[cls |-> "NonError", message |-> ""]}

\* err instanceof Error (src/App.tsx:126); FileProcessingError is an Error.
InstanceOfError(e) == e.cls \in {"Error", "FileProcessingError"}

\* extractTextFromFile(file): resolves with a text or rejects.
ExtractorOutcomes ==
  {[kind |-> "resolve", text |-> x, err |-> NoError] : x \in Texts}
    \cup {[kind |-> "reject", text |-> <<>>, err |-> e] : e \in ExtractorErrors}
NoOutcome == [kind |-> "none", text |-> <<>>, err |-> NoError]

\* analyzeContent({text}): resolves with a result or rejects.
AnalysisOutcomes ==
  {[kind |-> "resolve", result |-> Some(r), err |-> NoError] : r \in Results}
    \cup {[kind |-> "reject", result |-> Null, err |-> e] : e \in AnalysisErrors}

\* How getTextToAnalyze leaves: it returns a text (read from `from`), throws,
\* or suspends on the extractor for `file`.
Return(text, from) ==
  [kind |-> "return", text |-> text, from |-> from, err |-> NoError, file |-> Null]
Throw(e) ==
  [kind |-> "throw", text |-> <<>>, from |-> "none", err |-> e, file |-> Null]
Await(file) ==
  [kind |-> "await", text |-> <<>>, from |-> "none", err |-> NoError, file |-> file]
NoPending == [kind |-> "none", text |-> <<>>, from |-> "none", err |-> NoError, file |-> Null]

\* ---- the analysis request (AppContent) ----

\* Faulty variants of GetTextToAnalyze.
\* The entered text is tested for emptiness without trim.
GetTextToAnalyze_NoTrim ==
  IF inputMode = "text"
  THEN IF inputText = <<>>
       THEN Throw(NewError(t("errorNoText")))
       ELSE Return(inputText, "inputText")
  ELSE IF selectedFile = Null
       THEN Throw(NewError(t("errorNoFile")))
       ELSE Await(selectedFile)

\* The selected file is not tested for null.
GetTextToAnalyze_NoFileCheck ==
  IF inputMode = "text"
  THEN IF IsBlank(inputText)
       THEN Throw(NewError(t("errorNoText")))
       ELSE Return(inputText, "inputText")
  ELSE Await(selectedFile)

\* A selected file wins over the input mode.
GetTextToAnalyze_FileFirst ==
  IF selectedFile # Null THEN Await(selectedFile)
  ELSE IF inputMode = "text"
       THEN IF IsBlank(inputText)
            THEN Throw(NewError(t("errorNoText")))
            ELSE Return(inputText, "inputText")
       ELSE Throw(NewError(t("errorNoFile")))

\* getTextToAnalyze up to its first suspension (src/App.tsx:93-102).
GetTextToAnalyze ==
  IF inputMode = "text"
  THEN IF IsBlank(inputText)
       THEN Throw(NewError(t("errorNoText")))
       ELSE Return(inputText, "inputText")
  ELSE IF selectedFile = Null
       THEN Throw(NewError(t("errorNoFile")))
       ELSE Await(selectedFile)

\* Faulty variants of ExtractCatch: nothing is remapped; everything is remapped.
ExtractCatch_Rethrow(lang, e) == e

ExtractCatch_RemapAll(lang, e) == NewError(T(lang, "errorFileRead"))

\* The catch of getTextToAnalyze (src/App.tsx:105-112).
ExtractCatch(lang, e) ==
  IF e.cls = "FileProcessingError"
  THEN NewError(T(lang, "errorFileRead"))
  ELSE e

\* getTextToAnalyze from the extractor's outcome x on (src/App.tsx:102-112);
\* t is the one of the render the request started in.
GetTextToAnalyzeResume(lang, x) ==
  IF x.kind = "resolve"
  THEN IF IsBlank(x.text)
       THEN Throw(ExtractCatch(lang, NewError(T(lang, "errorNoTextExtracted"))))
       ELSE Return(x.text, "extractor")
  ELSE Throw(ExtractCatch(lang, x.err))

\* Faulty variant of StartState: the previous result is kept.
StartState_KeepResult ==
  [isLoading |-> TRUE, error |-> Null, analysisResult |-> analysisResult]

\* handleAnalyze before its try (src/App.tsx:116-118).
StartState == [isLoading |-> TRUE, error |-> Null, analysisResult |-> Null]

\* The message handleAnalyze's catch publishes (src/App.tsx:126-130).
CatchMessage(lang, e) ==
  IF InstanceOfError(e) THEN e.message ELSE T(lang, "errorGeneric")

\* Faulty variant of OnRejected: the loading flag is released on success only.
OnRejected_NoFinally(lang, e) ==
  [analysisResult |-> analysisResult,
   error |-> Some(CatchMessage(lang, e)),
   isLoading |-> isLoading]

\* handleAnalyze's catch and finally (src/App.tsx:124-133).
OnRejected(lang, e) ==
  [analysisResult |-> analysisResult,
   error |-> Some(CatchMessage(lang, e)),
   isLoading |-> FALSE]

\* handleAnalyze's success path and finally (src/App.tsx:123, 131-133).
OnResolved(r) ==
  [analysisResult |-> r, error |-> error, isLoading |-> FALSE]

NoRequest == [mode |-> "none", text |-> <<>>, file |-> Null, lang |-> "ar"]
NewLog ==
  [extractCalls |-> 0, extractArg |-> Null, extracted |-> NoOutcome,
   analyzeCalls |-> 0, sent |-> Null, thrown |-> NoError, outcome |-> "pending"]
NoLog == [NewLog EXCEPT !.outcome = "none"]

\* The trigger of TextInputSection: disabled while a request is loading.
AnalyzeEnabled == ~isLoading

\* A continuation of a settled promise runs before any further event.
NoMicrotask == pc # "resume"

Publish(s) ==
  /\ analysisResult' = s.analysisResult
  /\ error' = s.error
  /\ isLoading' = s.isLoading

\* onAnalyze: handleAnalyze up to its first suspension (src/App.tsx:115-121).
HandleAnalyze ==
  /\ AnalyzeEnabled
  /\ NoMicrotask
  /\ LET g == GetTextToAnalyze IN
       /\ Publish(StartState)
       /\ req' = [mode |-> inputMode,
                  text |-> IF inputMode = "text" THEN inputText ELSE <<>>,
                  file |-> IF inputMode = "file" THEN selectedFile ELSE Null,
                  lang |-> language]
       /\ IF g.kind = "await"
          THEN /\ pc' = "extracting"
               /\ pending' = NoPending
               /\ log' = [NewLog EXCEPT !.extractCalls = 1, !.extractArg = g.file]
          ELSE /\ pc' = "resume"
               /\ pending' = g
               /\ log' = NewLog
  /\ UNCHANGED <<uiVars, locVars>>

\* extractTextFromFile settles; getTextToAnalyze runs to its end (102-112).
ExtractorSettles(x) ==
  /\ pc = "extracting"
  /\ pc' = "resume"
  /\ pending' = GetTextToAnalyzeResume(req.lang, x)
  /\ log' = [log EXCEPT !.extracted = x]
  /\ UNCHANGED <<analysisResult, isLoading, error, req, uiVars, locVars>>

\* handleAnalyze resumes with the text and calls analyzeContent (121-122).
ResumeReturned ==
  /\ pc = "resume"
  /\ pending.kind = "return"
  /\ pc' = "analyzing"
  /\ pending' = NoPending
  /\ log' = [log EXCEPT !.analyzeCalls = @ + 1,
                        !.sent = Some([text |-> pending.text, from |-> pending.from])]
  /\ UNCHANGED <<analysisResult, isLoading, error, req, uiVars, locVars>>

\* handleAnalyze resumes with what getTextToAnalyze threw (121, 124-133).
ResumeThrown ==
  /\ pc = "resume"
  /\ pending.kind = "throw"
  /\ Publish(OnRejected(req.lang, pending.err))
  /\ pc' = "idle"
  /\ pending' = NoPending
  /\ log' = [log EXCEPT !.thrown = pending.err, !.outcome = "failure"]
  /\ UNCHANGED <<req, uiVars, locVars>>

\* analyzeContent resolves (122-123, 131-133).
AnalysisResolves(y) ==
  /\ pc = "analyzing"
  /\ y.kind = "resolve"
  /\ Publish(OnResolved(y.result))
  /\ pc' = "idle"
  /\ log' = [log EXCEPT !.outcome = "success"]
  /\ UNCHANGED <<pending, req, uiVars, locVars>>

\* analyzeContent rejects (122, 124-133).
AnalysisRejects(y) ==
  /\ pc = "analyzing"
  /\ y.kind = "reject"
  /\ Publish(OnRejected(req.lang, y.err))
  /\ pc' = "idle"
  /\ log' = [log EXCEPT !.thrown = y.err, !.outcome = "failure"]
  /\ UNCHANGED <<pending, req, uiVars, locVars>>

\* ---- the input section's setters (src/App.tsx:85-87, 141-147) ----

SetInputMode(m) ==
  /\ NoMicrotask
  /\ inputMode' = m
  /\ UNCHANGED <<inputText, selectedFile, reqVars, locVars>>

SetInputText(x) ==
  /\ NoMicrotask
  /\ inputText' = x
  /\ UNCHANGED <<inputMode, selectedFile, reqVars, locVars>>

SetSelectedFile(f) ==
  /\ NoMicrotask
  /\ selectedFile' = f
  /\ UNCHANGED <<inputMode, inputText, reqVars, locVars>>

\* ---- localization (App) ----

\* setLanguage and, when the language changed, the effect (163-169).
SetLanguage(l) ==
  /\ NoMicrotask
  /\ language' = l
  /\ IF l # language
     THEN /\ docLang' = LanguageEffect(l).lang
          /\ docDir' = LanguageEffect(l).dir
     ELSE UNCHANGED <<docLang, docDir>>
  /\ UNCHANGED <<translations, lookup, uiVars, reqVars>>

\* A consumer calls t(key) (src/App.tsx:171-173).
Lookup(key) ==
  /\ lookup' = Some([key |-> key, lang |-> language, out |-> t(key)])
  /\ UNCHANGED <<translations, language, docLang, docDir, uiVars, reqVars>>

\* ---- specifications ----

InitRest ==
  /\ language = "ar"
  /\ docLang = LanguageEffect("ar").lang
  /\ docDir = LanguageEffect("ar").dir
  /\ lookup = Null
  /\ inputMode = "text"
  /\ inputText = <<>>
  /\ selectedFile = Null
  /\ analysisResult = Null
  /\ isLoading = FALSE
  /\ error = Null
  /\ pc = "idle"
  /\ pending = NoPending
  /\ req = NoRequest
  /\ log = NoLog

Init ==
  /\ translations = TranslationTable
  /\ InitRest

Next ==
  \/ HandleAnalyze
  \/ \E x \in ExtractorOutcomes : ExtractorSettles(x)
  \/ ResumeReturned
  \/ ResumeThrown
  \/ \E y \in AnalysisOutcomes : AnalysisResolves(y)
  \/ \E y \in AnalysisOutcomes : AnalysisRejects(y)
  \/ \E m \in InputMode : SetInputMode(m)
  \/ \E x \in Texts : SetInputText(x)
  \/ \E f \in {Null} \cup {Some(f) : f \in Files} : SetSelectedFile(f)
  \/ \E l \in Language : SetLanguage(l)

Spec == Init /\ [][Next]_vars

\* The tables t is checked on: the table of the source with at most MaxBlank
\* entries emptied.
Entries == Language \X TranslationKey

RECURSIVE SubsetsUpTo(_)
SubsetsUpTo(n) ==
  IF n = 0 THEN {{}}
  ELSE LET P == SubsetsUpTo(n - 1) IN P \cup {s \cup {e} : s \in P, e \in Entries}

Emptied(S) ==
  [l \in Language |->
    [k \in TranslationKey |-> IF <<l, k>> \in S THEN "" ELSE TranslationTable[l][k]]]

InitT ==
  /\ translations \in {Emptied(S) : S \in SubsetsUpTo(MaxBlank)}
  /\ InitRest

NextT ==
  \/ \E l \in Language : SetLanguage(l)
  \/ \E k \in TranslationKey : Lookup(k)

SpecT == InitT /\ [][NextT]_vars

\* ---- properties ----

\* A text with nothing but white space in it (the empty text included).
AllWhitespace(s) == \A i \in 1..Len(s) : s[i] \in Whitespace

Settled == pc = "idle" /\ log.outcome \in {"success", "failure"}
Failed == pc = "idle" /\ log.outcome = "failure"

\* C1: the analysis result and the error are never both non-null; a request
\* that succeeded leaves the result set and the error null, a request that
\* failed leaves the result null and the error set.
C1_ResultErrorExclusive ==
  /\ ~(analysisResult # Null /\ error # Null)
  /\ (pc = "idle" /\ log.outcome = "success") => (analysisResult # Null /\ error = Null)
  /\ Failed => (analysisResult = Null /\ error # Null)

C1_Witness == Failed /\ error # Null /\ analysisResult = Null /\ log.analyzeCalls = 1

\* C2: the loading flag is true exactly while a request is in flight: it is
\* true from the start of handleAnalyze to the request's settling and false
\* once the request has settled, whichever way it ended.
C2_LoadingOnlyInFlight ==
  /\ isLoading <=> (pc # "idle")
  /\ (log.outcome = "pending") => isLoading
  /\ (log.outcome \in {"success", "failure"}) => ~isLoading

C2_Witness ==
  /\ Failed
  /\ log.extracted.kind = "reject"
  /\ ~isLoading

\* C3: a text-mode request whose text is empty or all white space fails with
\* the "no text" message of the request's language and calls neither the
\* extractor nor the analysis client.
C3_BlankTextFails ==
  (req.mode = "text" /\ AllWhitespace(req.text)) =>
    /\ log.analyzeCalls = 0
    /\ log.extractCalls = 0
    /\ log.outcome # "success"
    /\ (pc = "idle" => /\ log.outcome = "failure"
                       /\ error = Some(TranslationTable[req.lang]["errorNoText"]))

C3_Witness ==
  /\ req.mode = "text"
  /\ req.text # <<>>
  /\ AllWhitespace(req.text)
  /\ Failed

\* C4: a file-mode request with no file selected fails with the "no file"
\* message of the request's language; neither the extractor nor the analysis
\* client is called.
C4_NoFileFails ==
  (req.mode = "file" /\ req.file = Null) =>
    /\ log.extractCalls = 0
    /\ log.analyzeCalls = 0
    /\ log.outcome # "success"
    /\ (pc = "idle" => /\ log.outcome = "failure"
                       /\ error = Some(TranslationTable[req.lang]["errorNoFile"]))

C4_Witness == req.mode = "file" /\ req.file = Null /\ Failed

\* C5: when the extractor rejects with a FileProcessingError, the published
\* error is the "file read failed" string of the request's language, whatever
\* the message of the FileProcessingError, and the analysis client is not
\* called.
C5_FileProcessingErrorRemapped ==
  (req.mode = "file" /\ log.extracted.kind = "reject"
     /\ log.extracted.err.cls = "FileProcessingError") =>
    /\ log.analyzeCalls = 0
    /\ log.outcome # "success"
    /\ (pc = "idle" => /\ log.outcome = "failure"
                       /\ error = Some(TranslationTable[req.lang]["errorFileRead"]))

C5_Witness ==
  /\ req.mode = "file"
  /\ log.extracted.kind = "reject"
  /\ log.extracted.err.cls = "FileProcessingError"
  /\ log.extracted.err.message # ""
  /\ Failed

\* C6: when the extractor resolves with an empty or all-white-space text, the
\* request fails with the "no text extracted" message of the request's
\* language (not the "file read failed" one) and the analysis client is not
\* called.
C6_BlankExtractionFails ==
  (req.mode = "file" /\ log.extracted.kind = "resolve"
     /\ AllWhitespace(log.extracted.text)) =>
    /\ log.analyzeCalls = 0
    /\ log.outcome # "success"
    /\ (pc = "idle" => /\ log.outcome = "failure"
                       /\ error = Some(TranslationTable[req.lang]["errorNoTextExtracted"])
                       /\ error # Some(TranslationTable[req.lang]["errorFileRead"]))

C6_Witness ==
  /\ req.mode = "file"
  /\ log.extracted.kind = "resolve"
  /\ log.extracted.text # <<>>
  /\ AllWhitespace(log.extracted.text)
  /\ Failed

\* C7: t(key) is the active language's entry for the key when that entry is
\* not empty and the English entry for that key otherwise, whatever the other
\* entries of the active language's table are.
C7_PerKeyFallback ==
  lookup # Null =>
    LET r == lookup[1] IN
      /\ translations[r.lang][r.key] # "" => r.out = translations[r.lang][r.key]
      /\ translations[r.lang][r.key] = "" => r.out = translations["en"][r.key]

C7_Witness ==
  /\ lookup # Null
  /\ lookup[1].lang = "ar"
  /\ translations["ar"][lookup[1].key] = ""
  /\ lookup[1].out = TranslationTable["en"][lookup[1].key]
  /\ \E k \in TranslationKey : t(k) = TranslationTable["ar"][k]

\* C8: the document's lang attribute is the active language, its direction is
\* rtl exactly when the active language is Arabic and ltr otherwise, and t
\* returns the active language's strings.
C8_DocumentFollowsLanguage ==
  /\ docLang = language
  /\ docDir = "rtl" <=> language = "ar"
  /\ docDir = "ltr" <=> language # "ar"
  /\ \A k \in TranslationKey : t(k) = TranslationTable[language][k]

C8_Witness == language = "en" /\ docLang = "en" /\ docDir = "ltr"

\* C9: a request consults the one source its input mode names.  In text mode
\* the extractor is not called and what is sent to the analysis client is the
\* entered text; in file mode the extractor is called once at most, on the
\* selected file, and what is sent is the text the extractor produced.
C9_OneSourcePerMode ==
  /\ log.extractCalls <= 1
  /\ log.analyzeCalls <= 1
  /\ req.mode = "text" =>
       /\ log.extractCalls = 0
       /\ log.sent # Null => log.sent[1] = [text |-> req.text, from |-> "inputText"]
  /\ req.mode = "file" =>
       /\ log.extractCalls = 1 => (req.file # Null /\ log.extractArg = req.file)
       /\ log.sent # Null =>
            /\ log.extracted.kind = "resolve"
            /\ log.sent[1] = [text |-> log.extracted.text, from |-> "extractor"]

C9_Witness ==
  /\ req.mode = "file"
  /\ log.sent # Null
  /\ ~AllWhitespace(inputText)
  /\ inputText # log.sent[1].text
  /\ pc = "analyzing"

\* C10: a failure that is not a FileProcessingError (another extractor failure
\* or a failure of the analysis client) publishes the error's message, or the
\* generic message of the request's language when the error carries no
\* message; the published message is not empty and nothing is called twice.
C10_OtherFailuresPublishMessage ==
  (Failed /\ \/ log.analyzeCalls = 1
             \/ (log.extracted.kind = "reject"
                   /\ log.extracted.err.cls # "FileProcessingError")) =>
    /\ error # Null
    /\ error # Some("")
    /\ error = Some(IF log.thrown.message # ""
                    THEN log.thrown.message
                    ELSE TranslationTable[req.lang]["errorGeneric"])
    /\ log.extractCalls <= 1
    /\ log.analyzeCalls <= 1

====
